---- MODULE Spec2Model ----
(***************************************************************************)
(* Consent-gated operations of EthicalConsumptionAgent                     *)
(* (hushh_mcp/agents/ethical_consumption_agent/index.py) together with the *)
(* token collaborator hushh_mcp.consent.token (issue_token, revoke_token,  *)
(* validate_token) and the vault collaborator encrypt_data.                *)
(*                                                                         *)
(* Every operation call is a frame that moves through                      *)
(*   idle -> Requested -> Authorized -> Executed -> [Sealed ->] Returned   *)
(*   idle -> Requested -> Denied                                           *)
(*   ... -> Executed -> Failed        (encrypt_data raised)                *)
(* The only shared state a call reads is the revocation store, and it is   *)
(* read once, by validate_token, as the call's gate step.                  *)
(***************************************************************************)
EXTENDS Integers, FiniteSets, Sequences, TLC

\* ------------------------------------------------------------------ bounds
\* Tokens issue_token may hand out in one session.
MaxTokens == 1
\* revoke_token calls made in one session.
MaxRevokes == 2

\* Subjects and concurrent callers (call frames).
Users == {"u1", "u2"}
Callers == {"c1", "c2"}

\* ------------------------------------------------------- program constants
\* ConsentScope values the agent names (index.py 36-42, manifest.py 5-11).
CUSTOM_ETHICAL_VALUES == "custom.ethical.values"
VAULT_READ_EMAIL == "vault.read.email"
VAULT_READ_FINANCE == "vault.read.finance"
AGENT_SHOPPING_PURCHASE == "agent.shopping.purchase"
CUSTOM_SUPPLY_CHAIN == "custom.supply.chain"

ConsentScope ==
    {CUSTOM_ETHICAL_VALUES, VAULT_READ_EMAIL, VAULT_READ_FINANCE,
     AGENT_SHOPPING_PURCHASE, CUSTOM_SUPPLY_CHAIN}

\* EthicalConsumptionAgent.__init__: self.required_scopes.
InitRequiredScopes ==
    [k \in {"values_access", "email_access", "finance_access",
            "shopping_access", "supply_chain"} |->
        CASE k = "values_access" -> CUSTOM_ETHICAL_VALUES
          [] k = "email_access" -> VAULT_READ_EMAIL
          [] k = "finance_access" -> VAULT_READ_FINANCE
          [] k = "shopping_access" -> AGENT_SHOPPING_PURCHASE
          [] k = "supply_chain" -> CUSTOM_SUPPLY_CHAIN]

\* The five operation entry points.
Operations ==
    {"assess_ethical_values", "analyze_purchase_history",
     "search_ethical_products", "trace_supply_chain", "generate_report"}

\* ------------------------------------------------------------------ tokens
\* A token string. issue_token signs (user_id, agent_id, scope); a string
\* that issue_token did not produce does not verify.
Token(u, s) == [signed |-> TRUE, user_id |-> u, scope |-> s]
invalid_token == [signed |-> FALSE, user_id |-> "none", scope |-> "none"]
SignedTokens == {Token(u, s) : u \in Users, s \in ConsentScope}

VARIABLES
    issued,           \* token strings issue_token has handed out
    revoked,          \* the collaborator's revocation store
    required_scopes,  \* the agent's scope table
    calls,            \* call frame of each caller
    nrevokes,         \* revoke_token calls made so far
    product_data,     \* score_ethical_factors: the product scored
    user_values,      \* score_ethical_factors: the user's importances
    weights,          \* score_ethical_factors: the weights argument
    score_result,     \* score_ethical_factors: what it returned
    quiz              \* the values assessment: its loop and its dict

\* What score_ethical_factors and the values assessment work on; the
\* agent's gated operations leave both alone.
scoring == <<product_data, user_values, weights, score_result>>
operons == <<scoring, quiz>>

vars == <<issued, revoked, required_scopes, calls, nrevokes, operons>>

\* ------------------------------------------------- token collaborator
NoToken == [user_id |-> "none", scope |-> "none"]
REVOKED_REASON == "Token has been revoked"

\* validate_token(token_str, expected_scope) against the revocation store
\* rev: (valid, reason, token).
validate_token(token_str, expected_scope, rev) ==
    IF token_str \in rev
    THEN [valid |-> FALSE, reason |-> REVOKED_REASON, token |-> NoToken]
    ELSE IF ~token_str.signed
    THEN [valid |-> FALSE, reason |-> "Invalid token", token |-> NoToken]
    ELSE IF token_str.scope # expected_scope
    THEN [valid |-> FALSE, reason |-> "Scope mismatch", token |-> NoToken]
    ELSE [valid |-> TRUE, reason |-> "none",
          token |-> [user_id |-> token_str.user_id, scope |-> token_str.scope]]

\* Mutants of the revocation store: a second revoke_token of a token takes
\* it out again; a second revoke_token of a token empties the store.
RevokedAfter_toggle(rev, token_str) ==
    IF token_str \in rev THEN rev \ {token_str} ELSE rev \cup {token_str}

RevokedAfter_reset(rev, token_str) ==
    IF token_str \in rev THEN {} ELSE rev \cup {token_str}

\* The revocation store after revoke_token(token_str).
RevokedAfter(rev, token_str) == rev \cup {token_str}

\* --------------------------------------------------------- call frames
NoResult ==
    [status |-> "none", error |-> <<>>, data_user |-> "none",
     payload |-> FALSE, encrypted_data |-> FALSE]

IdleFrame ==
    [pc |-> "idle", op |-> "none", user_id |-> "none",
     token_str |-> invalid_token, seen_revoked |-> FALSE, result |-> NoResult]

\* Mutant: generate_report asks for the finance scope.
ScopeKey_finance(op) ==
    CASE op = "assess_ethical_values" -> "values_access"
      [] op = "analyze_purchase_history" -> "email_access"
      [] op = "search_ethical_products" -> "shopping_access"
      [] op = "trace_supply_chain" -> "supply_chain"
      [] op = "generate_report" -> "finance_access"

\* The required_scopes key each operation passes to validate_token.
ScopeKey(op) ==
    CASE op = "assess_ethical_values" -> "values_access"
      [] op = "analyze_purchase_history" -> "email_access"
      [] op = "search_ethical_products" -> "shopping_access"
      [] op = "trace_supply_chain" -> "supply_chain"
      [] op = "generate_report" -> "email_access"

\* Mutant: the answer of validate_token is not looked at.
ValidityCheck_skipped(v) == <<>>

\* Mutant: the failure carries a text of the agent's own, not the reason.
ValidityCheck_own_text(v) ==
    IF ~v.valid
    THEN <<"PermissionError", "Consent validation failed: ", "invalid token">>
    ELSE <<>>

\* if not valid: raise PermissionError(f"Consent validation failed: {reason}")
ValidityCheck(v) ==
    IF ~v.valid
    THEN <<"PermissionError", "Consent validation failed: ", v.reason>>
    ELSE <<>>

\* if token.user_id != user_id: raise PermissionError(...); generate_report
\* has no such statement.
IdentityCheck(op, v, user_id) ==
    IF op # "generate_report" /\ v.token.user_id # user_id
    THEN <<"PermissionError", "Token user ID does not match provided user">>
    ELSE <<>>

\* Mutant: the subject is compared before the answer of validate_token is
\* looked at.
GateError_subject_first(op, v, user_id) ==
    IF IdentityCheck(op, v, user_id) # <<>> THEN IdentityCheck(op, v, user_id)
    ELSE ValidityCheck(v)

\* The checks an operation makes before its first print, in order: the
\* error raised, or <<>>.
GateError(op, v, user_id) ==
    IF ValidityCheck(v) # <<>> THEN ValidityCheck(v)
    ELSE IdentityCheck(op, v, user_id)

\* Mutant: the values assessment returns its payload unsealed.
Seals_not_values(op) ==
    op \in {"analyze_purchase_history", "trace_supply_chain"}

\* Operations that pass their payload to encrypt_data.
Seals(op) ==
    op \in {"assess_ethical_values", "analyze_purchase_history",
            "trace_supply_chain"}

\* ------------------------------------------- score_ethical_factors
\* Scores are carried in tenths (75 is 7.5), weights in hundredths (25 is
\* 0.25), the multiplier in thousandths (1050 is 1.05).
BASELINE == 50
MAX_SCORE == 100
STRENGTH_FROM == 75
CONCERN_UPTO == 40
HIGH_ABOVE == 1050
NEUTRAL_IMPORTANCE == 3

Factors ==
    {"environmental", "labor", "supply_chain", "transparency",
     "certifications"}

\* The order the scores dict is filled in, which is the order of
\* scores.items().
FactorOrder ==
    <<"environmental", "labor", "supply_chain", "transparency",
      "certifications">>

\* The weights used when the weights argument is None.
DefaultWeights ==
    [f \in Factors |->
        CASE f = "environmental" -> 25
          [] f = "labor" -> 25
          [] f = "supply_chain" -> 20
          [] f = "transparency" -> 15
          [] f = "certifications" -> 15]

\* The weights argument: None, or a mapping.
NoneWeights == [is_none |-> TRUE, map |-> [f \in Factors |-> 0]]
GivenWeights(m) == [is_none |-> FALSE, map |-> m]

\* str.lower() on the strings products carry.
Lower(str) ==
    CASE str = "Fair Trade" -> "fair trade"
      [] str = "B-Corp" -> "b-corp"
      [] str = "Organic" -> "organic"
      [] str = "SA8000" -> "sa8000"
      [] str = "ISO14001" -> "iso14001"
      [] str = "Local, USA" -> "local, usa"
      [] str = "Local" -> "local"
      [] str = "Domestic" -> "domestic"
      [] str = "Unknown" -> "unknown"
      [] str = "Living wage employer" -> "living wage employer"
      [] str = "Worker rights policy" -> "worker rights policy"
      [] str = "Carbon neutral shipping" -> "carbon neutral shipping"
      [] str = "Renewable energy" -> "renewable energy"
      [] str = "Recyclable packaging" -> "recyclable packaging"
      [] OTHER -> str

\* The phrases the scorer looks for that occur in a lower-cased string
\* (Python's `phrase in text`).
PhrasesIn(lowered) ==
    CASE lowered = "local, usa" -> {"local"}
      [] lowered = "local" -> {"local"}
      [] lowered = "domestic" -> {"domestic"}
      [] lowered = "living wage employer" -> {"living wage"}
      [] lowered = "worker rights policy" -> {"worker rights"}
      [] lowered = "carbon neutral shipping" -> {"carbon neutral"}
      [] lowered = "renewable energy" -> {"renewable energy"}
      [] lowered = "recyclable packaging" -> {"recyclable"}
      [] OTHER -> {}

\* phrase in str(d).lower(), d a dict (or the product) whose strings are
\* `strings`.
InText(phrase, strings) ==
    \E x \in strings : phrase \in PhrasesIn(Lower(x))

\* [c.lower() for c in certifications]
LoweredList(certifications) ==
    {Lower(certifications[i]) : i \in 1..Len(certifications)}

\* Every string of str(product_data).
ProductStrings(p) ==
    {p.certifications[i] : i \in 1..Len(p.certifications)}
        \cup {p.origin} \cup p.labor_practices \cup p.environmental_impact
        \cup {p.tier_visibility[i] : i \in 1..Len(p.tier_visibility)}

Min(a, b) == IF a <= b THEN a ELSE b

\* env_score
EnvScore(p) ==
    Min(BASELINE
          + (IF "organic" \in LoweredList(p.certifications) THEN 15 ELSE 0)
          + (IF InText("carbon neutral", p.environmental_impact)
             THEN 10 ELSE 0)
          + (IF InText("renewable energy", p.environmental_impact)
             THEN 10 ELSE 0)
          + (IF InText("recyclable", ProductStrings(p)) THEN 5 ELSE 0),
        MAX_SCORE)

\* labor_score
LaborScore(p) ==
    Min(BASELINE
          + (IF "fair trade" \in LoweredList(p.certifications)
             THEN 20 ELSE 0)
          + (IF InText("living wage", p.labor_practices) THEN 15 ELSE 0)
          + (IF InText("worker rights", p.labor_practices) THEN 10 ELSE 0)
          + (IF "sa8000" \in LoweredList(p.certifications) THEN 10 ELSE 0),
        MAX_SCORE)

\* Mutant: a local or domestic origin sets the supply-chain score instead of
\* adding to it.
SupplyScore_origin_sets(p) ==
    Min((IF InText("local", {p.origin}) \/ InText("domestic", {p.origin})
         THEN BASELINE + 15
         ELSE IF Len(p.transparency_score) = 0 THEN BASELINE
         ELSE p.transparency_score[1])
          + (IF Len(p.tier_visibility) > 2 THEN 10 ELSE 0),
        MAX_SCORE)

\* supply_score: seeded from supply_chain["transparency_score"] (a list of
\* length 0 stands for the key being absent: the default 5).
SupplyScore(p) ==
    Min((IF Len(p.transparency_score) = 0 THEN BASELINE
         ELSE p.transparency_score[1])
          + (IF InText("local", {p.origin}) \/ InText("domestic", {p.origin})
             THEN 15 ELSE 0)
          + (IF Len(p.tier_visibility) > 2 THEN 10 ELSE 0),
        MAX_SCORE)

\* trans_score
TransScore(p) ==
    Min(BASELINE
          + (IF p.public_reporting THEN 15 ELSE 0)
          + (IF "b-corp" \in LoweredList(p.certifications) THEN 20 ELSE 0)
          + (IF Len(p.certifications) > 2 THEN 10 ELSE 0),
        MAX_SCORE)

\* cert_score
CertScore(p) == Min(Len(p.certifications) * 15, MAX_SCORE)

\* scores
Scores(p) ==
    [f \in Factors |->
        CASE f = "environmental" -> EnvScore(p)
          [] f = "labor" -> LaborScore(p)
          [] f = "supply_chain" -> SupplyScore(p)
          [] f = "transparency" -> TransScore(p)
          [] f = "certifications" -> CertScore(p)]

RECURSIVE SumOver(_, _)
SumOver(f, keys) ==
    IF keys = {} THEN 0
    ELSE LET k == CHOOSE x \in keys : TRUE
         IN  f[k] + SumOver(f, keys \ {k})

\* Mutant: weights the caller gives are scaled to sum to 1.
WeightsUsed_normalized(w) ==
    IF w.is_none THEN DefaultWeights
    ELSE [f \in Factors |-> (w.map[f] * 100) \div SumOver(w.map, Factors)]

\* The weights in force: the defaults when the argument is None.
WeightsUsed(w) == IF w.is_none THEN DefaultWeights ELSE w.map

\* Mutant: the component scores are summed without their weights.
OverallScore_unweighted(scores, w) ==
    SumOver([f \in DOMAIN WeightsUsed(w) |-> scores[f] * 100],
            DOMAIN WeightsUsed(w))

\* overall_score, in thousandths: sum(scores[f] * weights[f] for f in
\* weights.keys())
OverallScore(scores, w) ==
    SumOver([f \in DOMAIN WeightsUsed(w) |-> scores[f] * WeightsUsed(w)[f]],
            DOMAIN WeightsUsed(w))

\* Mutant: a key left out counts as a priority.
Get_priority(uv, key, default) == IF key \in DOMAIN uv THEN uv[key] ELSE 4

\* user_values.get(key, 3)
Get(uv, key, default) == IF key \in DOMAIN uv THEN uv[key] ELSE default

\* Mutant: a prioritised factor lowers the multiplier instead of raising it.
Multiplier_penalty(scores, uv) ==
    1000
      - (IF Get(uv, "environmental_importance", NEUTRAL_IMPORTANCE) >= 4
         THEN scores["environmental"] ELSE 0)
      - (IF Get(uv, "labor_practices_importance", NEUTRAL_IMPORTANCE) >= 4
         THEN scores["labor"] ELSE 0)
      - (IF Get(uv, "transparency_importance", NEUTRAL_IMPORTANCE) >= 4
         THEN scores["transparency"] ELSE 0)

\* user_weight_multiplier, in thousandths: 0.1 * (score / 10) is the score
\* in tenths counted as thousandths.
Multiplier(scores, uv) ==
    1000
      + (IF Get(uv, "environmental_importance", NEUTRAL_IMPORTANCE) >= 4
         THEN scores["environmental"] ELSE 0)
      + (IF Get(uv, "labor_practices_importance", NEUTRAL_IMPORTANCE) >= 4
         THEN scores["labor"] ELSE 0)
      + (IF Get(uv, "transparency_importance", NEUTRAL_IMPORTANCE) >= 4
         THEN scores["transparency"] ELSE 0)

\* final_score, in millionths: min(overall_score * multiplier, 10.0)
FinalScore(scores, uv, w) ==
    Min(OverallScore(scores, w) * Multiplier(scores, uv), 10000000)

\* round(x, 1) of a value in millionths, in tenths: to the nearest tenth.
\* The float the code rounds is the binary approximation of x, which at a
\* decimal tie lies just under or just over it; tie_up says which.
Round1(x, tie_up) ==
    LET q == x \div 100000
        r == x % 100000
    IN  IF r < 50000 THEN q
        ELSE IF r > 50000 THEN q + 1
        ELSE IF tie_up THEN q + 1 ELSE q

\* strengths and concerns, as the factors they name, in scores.items() order.
Strengths(scores) ==
    SelectSeq(FactorOrder, LAMBDA f : scores[f] >= STRENGTH_FROM)

\* Mutant: a score of exactly 4.0 is no concern.
Concerns_below(scores) ==
    SelectSeq(FactorOrder,
              LAMBDA f : ~(scores[f] >= STRENGTH_FROM)
                           /\ scores[f] < CONCERN_UPTO)

Concerns(scores) ==
    SelectSeq(FactorOrder,
              LAMBDA f : ~(scores[f] >= STRENGTH_FROM)
                           /\ scores[f] <= CONCERN_UPTO)

\* Mutant: a multiplier of exactly 1.05 already counts as high.
Alignment_at_threshold(scores, uv) ==
    IF Multiplier(scores, uv) >= HIGH_ABOVE THEN "high" ELSE "moderate"

\* user_alignment
Alignment(scores, uv) ==
    IF Multiplier(scores, uv) > HIGH_ABOVE THEN "high" ELSE "moderate"

\* score_ethical_factors(product_data, user_values, weights): the dict it
\* returns, scores in tenths.
score_ethical_factors(p, uv, w, tie_up) ==
    LET scores == Scores(p)
    IN  [overall_score |-> Round1(FinalScore(scores, uv, w), tie_up),
         component_scores |-> scores,
         strengths |-> Strengths(scores),
         concerns |-> Concerns(scores),
         certifications_found |-> p.certifications,
         user_alignment |-> Alignment(scores, uv),
         scoring_methodology |-> "weighted_multi_factor"]

\* No call of score_ethical_factors has been made.
NoScore ==
    [overall_score |-> 0,
     component_scores |-> [f \in Factors |-> 0],
     strengths |-> <<>>,
     concerns |-> <<>>,
     certifications_found |-> <<>>,
     user_alignment |-> "none",
     scoring_methodology |-> "none"]

NoProduct ==
    [certifications |-> <<>>, origin |-> "Unknown", labor_practices |-> {},
     environmental_impact |-> {}, transparency_score |-> <<>>,
     public_reporting |-> FALSE, tier_visibility |-> <<>>]

NoScoring ==
    /\ product_data = NoProduct
    /\ user_values = [k \in {} |-> 0]
    /\ weights = NoneWeights
    /\ score_result = NoScore

\* ------------------------------------------------ the values assessment
\* The questions, in the order asked, by the key each answer is stored under.
QuestionKeys ==
    <<"environmental_importance", "labor_practices_importance",
      "local_sourcing_preference", "animal_welfare_importance",
      "transparency_importance">>

\* int(response): the integer, or ValueError.
IntOf(response) ==
    CASE response = "1" -> [ok |-> TRUE, value |-> 1]
      [] response = "4" -> [ok |-> TRUE, value |-> 4]
      [] response = " 5" -> [ok |-> TRUE, value |-> 5]
      [] response = "0" -> [ok |-> TRUE, value |-> 0]
      [] response = "6" -> [ok |-> TRUE, value |-> 6]
      [] response = "-3" -> [ok |-> TRUE, value |-> 0 - 3]
      [] OTHER -> [ok |-> FALSE, value |-> 0]

NoValues == [k \in {} |-> 0]

\* No assessment is running. index is the question being asked, response
\* the last string input() returned, last what became of it.
IdleQuiz ==
    [pc |-> "none", entry |-> "none", index |-> 1, values |-> NoValues,
     response |-> "", last |-> "none"]

NoQuiz == quiz = IdleQuiz

\* Mutant: an out-of-range answer is clamped into 1..5 and stored.
AfterResponse_clamped(q, response) ==
    LET r == IntOf(response)
        key == QuestionKeys[q.index]
        v == IF r.value < 1 THEN 1 ELSE IF r.value > 5 THEN 5 ELSE r.value
    IN  IF ~r.ok
        THEN [q EXCEPT !.response = response, !.last = "not a number"]
        ELSE [q EXCEPT
                !.response = response,
                !.values = [k \in DOMAIN q.values \cup {key} |->
                               IF k = key THEN v ELSE q.values[k]],
                !.index = q.index + 1,
                !.pc = IF q.index = Len(QuestionKeys) THEN "done"
                       ELSE "asking",
                !.last = "stored"]

\* One pass of the `while True` body for the question at q.index: the
\* response is parsed, stored when it is in 1..5, and the loop goes on to
\* the next question; otherwise a message is printed and the question is
\* asked again.
AfterResponse(q, response) ==
    LET r == IntOf(response)
        key == QuestionKeys[q.index]
    IN  IF ~r.ok
        THEN [q EXCEPT !.response = response, !.last = "not a number"]
        ELSE IF 1 <= r.value /\ r.value <= 5
        THEN [q EXCEPT
                !.response = response,
                !.values = [k \in DOMAIN q.values \cup {key} |->
                               IF k = key THEN r.value ELSE q.values[k]],
                !.index = q.index + 1,
                !.pc = IF q.index = Len(QuestionKeys) THEN "done"
                       ELSE "asking",
                !.last = "stored"]
        ELSE [q EXCEPT !.response = response, !.last = "out of range"]

\* Non-interactive mode of the operon: every key gets 3.
DefaultValues ==
    [k \in {QuestionKeys[i] : i \in 1..Len(QuestionKeys)} |-> 3]

\* ------------------------------------------------------------------ Init
Init ==
    /\ issued = {}
    /\ revoked = {}
    /\ required_scopes = InitRequiredScopes
    /\ calls = [c \in Callers |-> IdleFrame]
    /\ nrevokes = 0
    /\ NoScoring
    /\ NoQuiz

\* --------------------------------------------------------------- actions
\* issue_token(user_id, agent_id, scope)
issue_token(u, s) ==
    /\ Cardinality(issued) < MaxTokens
    /\ Token(u, s) \notin issued
    /\ issued' = issued \cup {Token(u, s)}
    /\ UNCHANGED <<revoked, required_scopes, calls, nrevokes, operons>>

\* revoke_token(token_str)
revoke_token(t) ==
    /\ nrevokes < MaxRevokes
    /\ revoked' = RevokedAfter(revoked, t)
    /\ nrevokes' = nrevokes + 1
    /\ UNCHANGED <<issued, required_scopes, calls, operons>>

\* A caller enters an operation: agent.<op>(user_id, token_str, ...)
Request(c, op, u, t) ==
    /\ calls[c].pc = "idle"
    /\ calls' = [calls EXCEPT ![c] =
            [IdleFrame EXCEPT !.pc = "Requested", !.op = op,
                              !.user_id = u, !.token_str = t]]
    /\ UNCHANGED <<issued, revoked, required_scopes, nrevokes, operons>>

\* Mutant: an authorization decision is kept per token; a call whose token
\* another call in flight has already been authorized with skips
\* validate_token.
Gate_cached(c) ==
    LET f == calls[c]
        hit == \E d \in Callers \ {c} :
                  /\ calls[d].pc \in {"Authorized", "Executed", "Sealed",
                                      "Returned"}
                  /\ calls[d].token_str = f.token_str
                  /\ calls[d].op = f.op
        v == validate_token(f.token_str,
                            required_scopes[ScopeKey(f.op)],
                            IF hit THEN {} ELSE revoked)
        e == GateError(f.op, v, f.user_id)
    IN  /\ f.pc = "Requested"
        /\ calls' = [calls EXCEPT ![c] =
                IF e # <<>>
                THEN [f EXCEPT !.pc = "Denied",
                               !.seen_revoked = (f.token_str \in revoked),
                               !.result = [NoResult EXCEPT !.status = "error",
                                                           !.error = e]]
                ELSE [f EXCEPT !.pc = "Authorized",
                               !.seen_revoked = (f.token_str \in revoked)]]
        /\ UNCHANGED <<issued, revoked, required_scopes, nrevokes, operons>>

\* Mutant: the agent keeps the caller's user_id on itself (self.user_id), so
\* the comparison is made with the user_id of whichever call entered last:
\* another call in flight overwrites it.
Gate_shared_user(c) ==
    LET f == calls[c]
        others == {d \in Callers \ {c} : calls[d].pc # "idle"}
        uid == IF others = {} THEN f.user_id
               ELSE calls[CHOOSE d \in others : TRUE].user_id
        v == validate_token(f.token_str,
                            required_scopes[ScopeKey(f.op)], revoked)
        e == GateError(f.op, v, uid)
    IN  /\ f.pc = "Requested"
        /\ calls' = [calls EXCEPT ![c] =
                IF e # <<>>
                THEN [f EXCEPT !.pc = "Denied",
                               !.seen_revoked = (f.token_str \in revoked),
                               !.result = [NoResult EXCEPT !.status = "error",
                                                           !.error = e]]
                ELSE [f EXCEPT !.pc = "Authorized",
                               !.seen_revoked = (f.token_str \in revoked)]]
        /\ UNCHANGED <<issued, revoked, required_scopes, nrevokes, operons>>

\* validate_token and the checks on its answer.
Gate(c) ==
    LET f == calls[c]
        v == validate_token(f.token_str,
                            required_scopes[ScopeKey(f.op)], revoked)
        e == GateError(f.op, v, f.user_id)
    IN  /\ f.pc = "Requested"
        /\ calls' = [calls EXCEPT ![c] =
                IF e # <<>>
                THEN [f EXCEPT !.pc = "Denied",
                               !.seen_revoked = (f.token_str \in revoked),
                               !.result = [NoResult EXCEPT !.status = "error",
                                                           !.error = e]]
                ELSE [f EXCEPT !.pc = "Authorized",
                               !.seen_revoked = (f.token_str \in revoked)]]
        /\ UNCHANGED <<issued, revoked, required_scopes, nrevokes, operons>>

\* Mutant: a token is good for one use; the operation that ran on it puts
\* it in the revocation store.
Execute_consumes_token(c) ==
    LET f == calls[c]
    IN  /\ f.pc = "Authorized"
        /\ calls' = [calls EXCEPT ![c] =
                [f EXCEPT !.pc = "Executed",
                          !.result = [NoResult EXCEPT !.payload = TRUE,
                                                      !.data_user = f.user_id]]]
        /\ revoked' = revoked \cup {f.token_str}
        /\ UNCHANGED <<issued, required_scopes, nrevokes, operons>>

\* The operation's own logic: the quiz, the mock dataset, the report.
Execute(c) ==
    LET f == calls[c]
    IN  /\ f.pc = "Authorized"
        /\ calls' = [calls EXCEPT ![c] =
                [f EXCEPT !.pc = "Executed",
                          !.result = [NoResult EXCEPT !.payload = TRUE,
                                                      !.data_user = f.user_id]]]
        /\ UNCHANGED <<issued, revoked, required_scopes, nrevokes, operons>>

\* encrypt_data(json.dumps(payload), VAULT_ENCRYPTION_KEY)
Seal(c) ==
    LET f == calls[c]
    IN  /\ f.pc = "Executed"
        /\ Seals(f.op)
        /\ calls' = [calls EXCEPT ![c] =
                [f EXCEPT !.pc = "Sealed", !.result.encrypted_data = TRUE]]
        /\ UNCHANGED <<issued, revoked, required_scopes, nrevokes, operons>>

\* What encrypt_data raises when it fails.
ENCRYPT_FAILURE == <<"Exception", "encryption failed">>

\* Mutant: the failure of encrypt_data is caught and the operation returns
\* its result without the sealed payload.
AfterSealFailure_swallowed(f, e) ==
    [f EXCEPT !.pc = "Returned", !.result.status = "success"]

\* The call after encrypt_data raised e: no handler stands around the call
\* of encrypt_data, so the assignment and the return after it are not
\* reached and the caller gets e.
AfterSealFailure(f, e) ==
    [f EXCEPT !.pc = "Failed",
              !.result = [NoResult EXCEPT !.status = "error", !.error = e]]

\* encrypt_data(...) raises.
Seal_raises(c) ==
    LET f == calls[c]
    IN  /\ f.pc = "Executed"
        /\ Seals(f.op)
        /\ calls' = [calls EXCEPT ![c] = AfterSealFailure(f, ENCRYPT_FAILURE)]
        /\ UNCHANGED <<issued, revoked, required_scopes, nrevokes, operons>>

\* return {"status": "success", ...}
Return(c) ==
    LET f == calls[c]
    IN  /\ \/ f.pc = "Sealed"
           \/ f.pc = "Executed" /\ ~Seals(f.op)
        /\ calls' = [calls EXCEPT ![c] =
                [f EXCEPT !.pc = "Returned", !.result.status = "success"]]
        /\ UNCHANGED <<issued, revoked, required_scopes, nrevokes, operons>>

\* The caller has its answer; the frame is gone.
Finish(c) ==
    /\ calls[c].pc \in {"Denied", "Failed", "Returned"}
    /\ calls' = [calls EXCEPT ![c] = IdleFrame]
    /\ UNCHANGED <<issued, revoked, required_scopes, nrevokes, operons>>

Next ==
    \/ \E u \in Users, s \in ConsentScope : issue_token(u, s)
    \/ \E t \in issued : revoke_token(t)
    \/ \E c \in Callers, op \in Operations, u \in Users,
          t \in issued \cup {invalid_token} : Request(c, op, u, t)
    \/ \E c \in Callers : Gate(c)
    \/ \E c \in Callers : Execute(c)
    \/ \E c \in Callers : Seal(c)
    \/ \E c \in Callers : Seal_raises(c)
    \/ \E c \in Callers : Return(c)
    \/ \E c \in Callers : Finish(c)

Spec == Init /\ [][Next]_vars

\* ------------------------------------------ scoring: inputs and actions
\* Certifications a product list may hold besides the four the scorer
\* recognises.
MaxOtherCerts == 3

RecognizedCerts == <<"Fair Trade", "B-Corp", "Organic", "SA8000">>
RecognizedSet == {RecognizedCerts[i] : i \in 1..Len(RecognizedCerts)}
LaborTexts == {"Living wage employer", "Worker rights policy"}
EnvTexts ==
    {"Carbon neutral shipping", "Renewable energy", "Recyclable packaging"}
Origins == {"Unknown", "Local, USA", "Domestic"}
\* transparency_score in tenths.
TransparencyScores == {<<0 - 10>>, <<80>>}
TierLists == {<<"tier1", "tier2">>, <<"tier1", "tier2", "tier3">>}

\* The certification list holding the recognised certifications of S and n
\* others.
CertList(S, n) ==
    SelectSeq(RecognizedCerts, LAMBDA c : c \in S)
        \o [i \in 1..n |-> "ISO14001"]

CertLists ==
    {CertList(S, n) : S \in SUBSET RecognizedSet, n \in {0, MaxOtherCerts}}

ProductSpace ==
    [certifications : CertLists, origin : Origins,
     labor_practices : SUBSET LaborTexts,
     environmental_impact : SUBSET EnvTexts,
     transparency_score : TransparencyScores,
     public_reporting : BOOLEAN, tier_visibility : TierLists]

ImportanceKeys ==
    {"environmental_importance", "labor_practices_importance",
     "transparency_importance"}
AllValueKeys == {QuestionKeys[i] : i \in 1..Len(QuestionKeys)}

\* The profile with everything a priority.
EveryPriority == [k \in AllValueKeys |-> 5]

\* The custom weights of the repository's test, and a mapping that sums
\* to 2.0.
TestWeights ==
    [f \in Factors |->
        CASE f = "environmental" -> 50
          [] f = "labor" -> 20
          [] f = "supply_chain" -> 15
          [] f = "transparency" -> 10
          [] f = "certifications" -> 5]
HeavyWeights == [f \in Factors |-> 40]

InitAgentIdle ==
    /\ issued = {}
    /\ revoked = {}
    /\ required_scopes = InitRequiredScopes
    /\ calls = [c \in Callers |-> IdleFrame]
    /\ nrevokes = 0

InitScore ==
    /\ InitAgentIdle
    /\ NoQuiz
    /\ product_data \in ProductSpace
    /\ user_values = EveryPriority
    /\ weights = NoneWeights
    /\ score_result = NoScore

\* The roundings round(final_score, 1) can take for these arguments.
TieChoices(p, uv, w) ==
    IF FinalScore(Scores(p), uv, w) % 100000 = 50000 THEN BOOLEAN
    ELSE {FALSE}

\* result = score_ethical_factors(product_data, user_values, weights)
score(tie_up) ==
    /\ score_result = NoScore
    /\ score_result' =
           score_ethical_factors(product_data, user_values, weights, tie_up)
    /\ UNCHANGED <<issued, revoked, required_scopes, calls, nrevokes,
                   product_data, user_values, weights, quiz>>

\* One positive signal more on a product: a recognised certification, a
\* labour or environmental statement, a local or domestic origin, public
\* reporting, one more visible tier.
WithCertification(p, c) ==
    [p EXCEPT !.certifications =
        CertList({p.certifications[i] : i \in 1..Len(p.certifications)}
                    \cup {c},
                 Cardinality({i \in 1..Len(p.certifications) :
                                 p.certifications[i] \notin RecognizedSet}))]

PositiveSteps(p) ==
    {WithCertification(p, c) : c \in RecognizedSet}
      \cup {[p EXCEPT !.labor_practices = @ \cup {t}] : t \in LaborTexts}
      \cup {[p EXCEPT !.environmental_impact = @ \cup {t}] : t \in EnvTexts}
      \cup {[p EXCEPT !.origin = o] :
                o \in IF p.origin = "Unknown" THEN {"Local, USA", "Domestic"}
                      ELSE {p.origin}}
      \cup {[p EXCEPT !.public_reporting = TRUE]}
      \cup {[p EXCEPT !.tier_visibility = t] :
                t \in {x \in TierLists : Len(x) = Len(p.tier_visibility) + 1}}

\* The same caller scores the product again with one positive signal added.
score_with_more(q, tie_up) ==
    /\ score_result # NoScore
    /\ q # product_data
    /\ product_data' = q
    /\ score_result' = score_ethical_factors(q, user_values, weights, tie_up)
    /\ UNCHANGED <<issued, revoked, required_scopes, calls, nrevokes,
                   user_values, weights, quiz>>

NextScore ==
    \/ \E tie_up \in TieChoices(product_data, user_values, weights) :
          score(tie_up)
    \/ \E q \in PositiveSteps(product_data) :
          \E tie_up \in TieChoices(q, user_values, weights) :
             score_with_more(q, tie_up)

SpecScore == InitScore /\ [][NextScore]_vars

\* ------------------------------ scoring: the scenarios and the profiles
\* The product of scenario A, with any labour and environmental statements
\* (those of the test, dict keys with underscores, among them);
\* the product of scenario B; a product with nothing on it; products in
\* between.
ScenarioA ==
    [certifications : {<<"Fair Trade", "B-Corp", "Organic">>},
     origin : {"Local, USA"},
     labor_practices :
        (SUBSET LaborTexts) \cup {{"living_wage", "worker_rights"}},
     environmental_impact :
        {{}, EnvTexts, {"carbon_neutral", "renewable_energy"}},
     transparency_score : {<<80>>},
     public_reporting : {TRUE},
     tier_visibility : {<<"tier1", "tier2", "tier3">>}]

ScenarioB ==
    [NoProduct EXCEPT !.transparency_score = <<20>>]

\* Products with the certifications, origin and transparency_score of
\* scenario B that also carry labour or environmental statements, public
\* reporting or visible tiers.
ScenarioBWith ==
    [certifications : {<<>>},
     origin : {"Unknown"},
     labor_practices : {{}, LaborTexts},
     environmental_impact : {{}, EnvTexts},
     transparency_score : {<<20>>},
     public_reporting : BOOLEAN,
     tier_visibility : {<<>>, <<"tier1", "tier2", "tier3">>}]

\* The product of the custom-weights test.
CustomWeightsProduct ==
    [certifications |-> <<"Fair Trade">>, origin |-> "Local",
     labor_practices |-> {"fair_wages"}, environmental_impact |-> {"organic"},
     transparency_score |-> <<70>>, public_reporting |-> FALSE,
     tier_visibility |-> <<>>]

\* A product with components on both explanation thresholds: labour at
\* 7.5, supply chain at 4.0.
ThresholdProduct ==
    [NoProduct EXCEPT !.transparency_score = <<40>>,
                      !.labor_practices = LaborTexts]

ProfiledProducts ==
    ScenarioA
      \cup ScenarioBWith
      \cup {ScenarioB, NoProduct, CustomWeightsProduct, ThresholdProduct,
            [NoProduct EXCEPT !.public_reporting = TRUE],
            [NoProduct EXCEPT !.certifications = <<"Organic">>],
            [NoProduct EXCEPT !.certifications = <<"B-Corp", "SA8000">>,
                              !.labor_practices = LaborTexts]}

\* Every profile over the three keys the scorer reads (left out, 3, 4 or
\* 5), the two it does not read left out or given as 4.
ProfileSpace ==
    {uv \in UNION {[D -> {3, 4, 5}] : D \in SUBSET AllValueKeys} :
        \A k \in DOMAIN uv : k \notin ImportanceKeys => uv[k] = 4}

InitProfile ==
    /\ InitAgentIdle
    /\ NoQuiz
    /\ product_data \in ProfiledProducts
    /\ user_values \in ProfileSpace
    /\ weights \in {NoneWeights, GivenWeights(DefaultWeights),
                    GivenWeights(TestWeights), GivenWeights(HeavyWeights)}
    /\ score_result = NoScore

NextProfile ==
    \E tie_up \in TieChoices(product_data, user_values, weights) :
       score(tie_up)

SpecProfile == InitProfile /\ [][NextProfile]_vars

\* --------------------------------------- the values assessment: actions
Responses == {"1", "4", " 5", "0", "6", "-3", "abc", "4.5", ""}

InitQuiz ==
    /\ InitAgentIdle
    /\ NoScoring
    /\ quiz = [IdleQuiz EXCEPT !.pc = "start"]

\* EthicalConsumptionAgent.assess_ethical_values past its gate, or the
\* operon called with interactive=True: the first question is asked.
begin_interactive(entry) ==
    /\ quiz.pc = "start"
    /\ quiz' = [quiz EXCEPT !.pc = "asking", !.entry = entry]
    /\ UNCHANGED <<issued, revoked, required_scopes, calls, nrevokes, scoring>>

\* The operon called with interactive=False.
begin_default ==
    /\ quiz.pc = "start"
    /\ quiz' = [quiz EXCEPT !.pc = "done", !.entry = "operon_default",
                            !.values = DefaultValues]
    /\ UNCHANGED <<issued, revoked, required_scopes, calls, nrevokes, scoring>>

\* input() returns a response.
respond(response) ==
    /\ quiz.pc = "asking"
    /\ quiz' = AfterResponse(quiz, response)
    /\ UNCHANGED <<issued, revoked, required_scopes, calls, nrevokes, scoring>>

NextQuiz ==
    \/ \E e \in {"agent", "operon_interactive"} : begin_interactive(e)
    \/ begin_default
    \/ \E r \in Responses : respond(r)

SpecQuiz == InitQuiz /\ [][NextQuiz]_vars

\* ------------------------------------------------------ reading a frame
\* The call has been through its gate step.
PastGate(f) == f.pc \notin {"idle", "Requested"}

\* The call ran operation logic.
Ran(f) == f.pc \in {"Executed", "Sealed", "Failed", "Returned"}

\* The two failures an operation raises, told apart by what the caller sees.
ConsentDenied(r) ==
    /\ r.status = "error"
    /\ Len(r.error) = 3
    /\ r.error[1] = "PermissionError"
    /\ r.error[2] = "Consent validation failed: "

SubjectMismatch(r) ==
    /\ r.status = "error"
    /\ r.error = <<"PermissionError",
                   "Token user ID does not match provided user">>

\* The scope each operation requires, as the specification's registry
\* states it.
RegistryScope(op) ==
    CASE op = "assess_ethical_values" -> "custom.ethical.values"
      [] op = "analyze_purchase_history" -> "vault.read.email"
      [] op = "generate_report" -> "vault.read.email"
      [] op = "search_ethical_products" -> "agent.shopping.purchase"
      [] op = "trace_supply_chain" -> "custom.supply.chain"

\* The token the call presented validated at the call's gate step: issued,
\* for the operation's scope, not revoked when checked.
TokenValidated(f) ==
    /\ f.token_str.signed
    /\ f.token_str.scope = RegistryScope(f.op)
    /\ ~f.seen_revoked

\* ---------------------------------------------------------------- claims

\* C1: identity binding is not skippable. In each of the five operations a
\* call whose token validates for the operation's scope but whose decoded
\* subject differs from the caller-supplied user_id never runs the
\* operation and never returns a success result with data for that user_id.
C1_IdentityBinding ==
    \A c \in Callers :
        LET f == calls[c]
        IN  (TokenValidated(f) /\ f.token_str.user_id # f.user_id)
                => /\ ~Ran(f)
                   /\ f.result.status # "success"
                   /\ f.result.data_user # f.user_id

\* C2: a token whose granted scope differs from the scope the operation
\* requires makes the operation fail with ConsentDenied; the call is never
\* authorized, runs nothing and returns no success result.
C2_WrongScopeDenied ==
    \A c \in Callers :
        LET f == calls[c]
        IN  (PastGate(f) /\ f.token_str.signed
               /\ f.token_str.scope # RegistryScope(f.op))
                => /\ f.pc = "Denied"
                   /\ ConsentDenied(f.result)
                   /\ ~f.result.payload
                   /\ ~f.result.encrypted_data

C2_Witness ==
    \E c \in Callers :
        LET f == calls[c]
        IN  /\ f.pc = "Denied"
            /\ f.token_str.signed
            /\ f.token_str.scope # RegistryScope(f.op)
            /\ f.token_str.user_id = f.user_id
            /\ ~f.seen_revoked
            /\ ConsentDenied(f.result)

\* C3: a token that passes the scope and revocation checks but names a
\* subject other than the expected one makes the gate fail with
\* SubjectMismatch, which is never reported as ConsentDenied.
C3_SubjectMismatchKind ==
    \A c \in Callers :
        LET f == calls[c]
        IN  (PastGate(f) /\ TokenValidated(f)
               /\ f.token_str.user_id # f.user_id)
                => /\ f.pc = "Denied"
                   /\ SubjectMismatch(f.result)
                   /\ ~ConsentDenied(f.result)

\* C4: a token that was issued and then revoked is rejected. An operation
\* called with it, the matching scope and the matching subject fails with
\* ConsentDenied whose reason is the collaborator's "Token has been
\* revoked", and no data is returned.
C4_RevokedRejected ==
    \A c \in Callers :
        LET f == calls[c]
        IN  (PastGate(f) /\ f.seen_revoked
               /\ f.token_str.scope = RegistryScope(f.op)
               /\ f.token_str.user_id = f.user_id)
                => /\ f.pc = "Denied"
                   /\ ConsentDenied(f.result)
                   /\ f.result.error[3] = REVOKED_REASON
                   /\ ~f.result.payload
                   /\ ~f.result.encrypted_data
                   /\ f.result.data_user = "none"

C4_Witness ==
    \E c \in Callers :
        LET f == calls[c]
        IN  /\ f.pc = "Denied"
            /\ f.seen_revoked
            /\ f.token_str \in issued
            /\ f.token_str \in revoked
            /\ f.token_str.scope = RegistryScope(f.op)
            /\ f.token_str.user_id = f.user_id
            /\ f.result.error[3] = REVOKED_REASON

\* C5: revocation is monotonic. Across every step of issue, revoke,
\* validate and operation calls the revocation store only grows, and a token
\* in it validates for no scope, before the step and after it.
C5_RevocationMonotonic ==
    [][/\ revoked \subseteq revoked'
       /\ \A t \in revoked : \A s \in ConsentScope :
             /\ ~validate_token(t, s, revoked).valid
             /\ ~validate_token(t, s, revoked').valid]_vars

C5_Witness ==
    /\ revoked # {}
    /\ nrevokes = MaxRevokes
    /\ \E c \in Callers :
          /\ calls[c].pc = "Denied"
          /\ calls[c].seen_revoked
          /\ calls[c].token_str \in revoked

\* C6: revoke_token is idempotent. Revoking a token that is already revoked
\* is a step like any other, leaves the revocation store as it was, and
\* validate_token of that token still reports "Token has been revoked".
C6_RevokeIdempotent ==
    [][\A t \in issued :
          (t \in revoked /\ revoke_token(t))
              => /\ revoked' = revoked
                 /\ \A s \in ConsentScope :
                       LET v == validate_token(t, s, revoked')
                       IN  ~v.valid /\ v.reason = REVOKED_REASON]_vars

\* Some token has been revoked more than once.
C6_Witness ==
    /\ revoked # {}
    /\ nrevokes > Cardinality(revoked)

\* C7: every call follows Requested -> Authorized -> Executed -> Sealed or
\* Requested -> Denied. Operation logic runs only after the consent gate
\* (validation, then identity) passed, sealing only after the logic ran,
\* and a denied call is over: no logic, no encryption, the gate's error
\* as raised.
C7_GatePassed(f) ==
    TokenValidated(f) /\ f.token_str.user_id = f.user_id

C7_CallStateMachine ==
    [][\A c \in Callers :
          LET f == calls[c]
              g == calls'[c]
          IN  /\ g.pc = "Authorized" => (f.pc \in {"Requested", "Authorized"}
                                           /\ C7_GatePassed(g))
              /\ g.pc = "Executed" => (f.pc \in {"Authorized", "Executed"}
                                           /\ C7_GatePassed(g))
              /\ g.pc = "Sealed" => f.pc \in {"Executed", "Sealed"}
              /\ g.pc = "Denied" =>
                    /\ f.pc \in {"Requested", "Denied"}
                    /\ ~g.result.payload
                    /\ ~g.result.encrypted_data
                    /\ ConsentDenied(g.result) \/ SubjectMismatch(g.result)
              /\ f.pc = "Denied" => (g = f \/ g.pc = "idle")]_vars

\* C8, as the specification states it: every operation that succeeds
\* returns the clear-text result and the sealed payload.
C8_AllSealed ==
    \A c \in Callers :
        LET f == calls[c]
        IN  f.pc = "Returned"
                => /\ f.result.status = "success"
                   /\ f.result.payload
                   /\ f.result.encrypted_data

\* C8, amended: assess_ethical_values, analyze_purchase_history and
\* trace_supply_chain seal their output before returning and return the
\* clear-text result and the sealed payload; search_ethical_products and
\* generate_report return the clear-text result only.
C8_SealedWhereSealing ==
    \A c \in Callers :
        LET f == calls[c]
        IN  f.pc = "Returned"
                => /\ f.result.status = "success"
                   /\ f.result.payload
                   /\ f.result.encrypted_data
                        <=> f.op \in {"assess_ethical_values",
                                      "analyze_purchase_history",
                                      "trace_supply_chain"}

C8_Witness ==
    /\ \E c \in Callers :
          /\ calls[c].pc = "Returned"
          /\ calls[c].op = "analyze_purchase_history"
          /\ calls[c].result.payload
          /\ calls[c].result.encrypted_data
    /\ \E c \in Callers :
          /\ calls[c].pc = "Returned"
          /\ calls[c].op = "generate_report"
          /\ calls[c].result.payload
          /\ ~calls[c].result.encrypted_data

\* C9: no authorization decision is kept across calls. Every call is
\* denied as revoked exactly when its token was in the revocation store at
\* its own validation, whatever an earlier call with the same token got.
C9_DeniedAsRevoked(f) ==
    /\ f.pc = "Denied"
    /\ ConsentDenied(f.result)
    /\ f.result.error[3] = REVOKED_REASON

C9_NoCachedDecision ==
    \A c \in Callers :
        LET f == calls[c]
        IN  PastGate(f) => (C9_DeniedAsRevoked(f) <=> f.seen_revoked)

\* A call succeeded with a token; the token was revoked; the same call made
\* again is denied.
C9_Witness ==
    \E c, d \in Callers :
        /\ calls[c].pc = "Returned"
        /\ calls[c].result.status = "success"
        /\ ~calls[c].seen_revoked
        /\ calls[d].token_str = calls[c].token_str
        /\ calls[d].op = calls[c].op
        /\ calls[d].user_id = calls[c].user_id
        /\ C9_DeniedAsRevoked(calls[d])

\* C10: calls for different subjects do not observe each other. The error a
\* call got at its gate (none when it was authorized) is the one its own
\* token, its operation's scope, its own user_id and its own token's
\* revocation status give, whatever the rest of the store and the other
\* calls in flight are.
C10_OwnOutcome(f) ==
    GateError(f.op,
              validate_token(f.token_str, RegistryScope(f.op),
                             IF f.seen_revoked THEN {f.token_str} ELSE {}),
              f.user_id)

C10_SubjectsIsolated ==
    \A c \in Callers :
        LET f == calls[c]
        IN  PastGate(f)
                => /\ (f.pc = "Denied") <=> (C10_OwnOutcome(f) # <<>>)
                   /\ f.pc = "Denied" => f.result.error = C10_OwnOutcome(f)

\* Two calls for different subjects in flight, one served and one denied.
C10_Witness ==
    \E c, d \in Callers :
        /\ calls[c].user_id = "u1"
        /\ calls[d].user_id = "u2"
        /\ calls[c].pc = "Returned"
        /\ calls[c].token_str.user_id = "u1"
        /\ calls[d].pc = "Denied"
        /\ calls[d].token_str = calls[c].token_str
        /\ calls[d].op = calls[c].op

\* ------------------------------------------------- claims on the scorer
\* A call of score_ethical_factors has returned.
Scored == score_result # NoScore

\* C11: clamping law. Whatever the product (certifications, origin, flags,
\* numeric transparency_score), each of the five component scores and the
\* overall score the scorer returns lies in [0, 10].
C11_Clamped ==
    Scored
        => /\ \A f \in Factors :
                 /\ 0 <= score_result.component_scores[f]
                 /\ score_result.component_scores[f] <= MAX_SCORE
           /\ 0 <= score_result.overall_score
           /\ score_result.overall_score <= MAX_SCORE

\* C13: monotonicity. Scoring a product again with one recognised positive
\* certification or flag added (organic, carbon neutral, renewable energy,
\* recyclable, fair trade, living wage, worker rights, SA8000, B-Corp,
\* public reporting, local/domestic origin, one more visible tier) lowers
\* none of the five component scores.
C13_Monotone ==
    [][(Scored /\ product_data' \in PositiveSteps(product_data))
          => \A f \in Factors :
                score_result'.component_scores[f]
                    >= score_result.component_scores[f]]_vars

\* A scored product that has every labour signal and a supply-chain seed
\* of 8 with a local origin and three tiers: both components stand at the
\* cap, where one more signal changes nothing.
C13_Witness ==
    /\ Scored
    /\ LaborTexts \subseteq product_data.labor_practices
    /\ {"fair trade", "sa8000"}
          \subseteq LoweredList(product_data.certifications)
    /\ product_data.origin = "Local, USA"
    /\ Len(product_data.tier_visibility) > 2
    /\ score_result.component_scores["labor"] = MAX_SCORE
    /\ score_result.component_scores["supply_chain"] = MAX_SCORE

\* The product of scenario A: what the scenario fixes, whatever the labour
\* and environmental statements.
IsScenarioA(p) ==
    /\ p.certifications = <<"Fair Trade", "B-Corp", "Organic">>
    /\ p.origin = "Local, USA"
    /\ p.transparency_score = <<80>>
    /\ p.public_reporting
    /\ Len(p.tier_visibility) = 3

\* The profile states an importance of at least 4 for each key of K.
PrioritizesAll(uv, K) == \A k \in K : k \in DOMAIN uv /\ uv[k] >= 4

\* The call used the default weights.
DefaultWeighted == WeightsUsed(weights) = DefaultWeights

\* C14: scenario A. The product with certifications Fair Trade, B-Corp and
\* Organic, origin "Local, USA", transparency_score 8, public reporting and
\* three visible tiers, scored with default weights for a profile whose
\* environmental, labour and transparency importance are each at least 4,
\* gets overall_score >= 7.0 and user_alignment "high".
C14_ScenarioA ==
    (/\ Scored
     /\ IsScenarioA(product_data)
     /\ PrioritizesAll(user_values, ImportanceKeys)
     /\ DefaultWeighted)
        => /\ score_result.overall_score >= 70
           /\ score_result.user_alignment = "high"

\* The call of the repository's test: its product, its profile (5, 4, 5),
\* no weights given; the result is 9.2 and "high".
C14_Witness ==
    /\ Scored
    /\ IsScenarioA(product_data)
    /\ product_data.labor_practices = {"living_wage", "worker_rights"}
    /\ product_data.environmental_impact
          = {"carbon_neutral", "renewable_energy"}
    /\ user_values
          = [k \in ImportanceKeys |->
                IF k = "labor_practices_importance" THEN 4 ELSE 5]
    /\ weights = NoneWeights
    /\ score_result.overall_score = 92
    /\ score_result.user_alignment = "high"

\* What scenario B fixes of the product.
IsScenarioB(p) ==
    /\ p.certifications = <<>>
    /\ p.origin = "Unknown"
    /\ p.transparency_score = <<20>>

\* C15: scenario B as stated. A product with no certifications, origin
\* "Unknown" and transparency_score 2, scored with default weights for a
\* profile with all importances at least 4, gets overall_score <= 6.0 and a
\* non-empty concerns list.
C15_ScenarioB ==
    (/\ Scored
     /\ IsScenarioB(product_data)
     /\ PrioritizesAll(user_values, AllValueKeys)
     /\ DefaultWeighted)
        => /\ score_result.overall_score <= 60
           /\ score_result.concerns # <<>>

\* C15, amended: the same for the product of scenario B that states no
\* labour practices and no environmental impact.
C15_ScenarioBPlain ==
    (/\ Scored
     /\ IsScenarioB(product_data)
     /\ product_data.labor_practices = {}
     /\ product_data.environmental_impact = {}
     /\ PrioritizesAll(user_values, AllValueKeys)
     /\ DefaultWeighted)
        => /\ score_result.overall_score <= 60
           /\ score_result.concerns # <<>>

\* The product of the repository's test scored for a profile with all five
\* importances at least 4: 4.2, the supply chain and the certifications a
\* concern.
C15_Witness ==
    /\ Scored
    /\ product_data = ScenarioB
    /\ PrioritizesAll(user_values, AllValueKeys)
    /\ weights = NoneWeights
    /\ score_result.overall_score = 42
    /\ score_result.concerns = <<"supply_chain", "certifications">>

\* The share of the multiplier (in thousandths) a factor brings as the
\* claim states it: 0.1 * (componentScore / 10) of the returned component
\* when the profile gives the factor's key an importance of at least 4.
BonusFor(key, factor) ==
    IF key \in DOMAIN user_values /\ user_values[key] >= 4
    THEN score_result.component_scores[factor]
    ELSE 0

StatedMultiplier ==
    1000 + BonusFor("environmental_importance", "environmental")
         + BonusFor("labor_practices_importance", "labor")
         + BonusFor("transparency_importance", "transparency")

\* C16: user_alignment is "high" if and only if the user-preference
\* multiplier (1.0 plus 0.1 * (componentScore/10) for each of environmental,
\* labor and transparency whose importance is at least 4) exceeds 1.05;
\* a multiplier of exactly 1.05 gives "moderate".
C16_AlignmentThreshold ==
    Scored
        => /\ score_result.user_alignment = "high"
                <=> StatedMultiplier > 1050
           /\ StatedMultiplier <= 1050
                => score_result.user_alignment = "moderate"

\* One prioritised factor at the 5.0 baseline: the multiplier is exactly
\* 1.05 and the alignment "moderate".
C16_Witness ==
    /\ Scored
    /\ product_data = NoProduct
    /\ user_values = [k \in {"environmental_importance"} |-> 4]
    /\ StatedMultiplier = 1050
    /\ score_result.user_alignment = "moderate"

\* The profile uv with the key k stated as v.
WithKey(uv, k, v) ==
    [x \in DOMAIN uv \cup {k} |-> IF x = k THEN v ELSE uv[x]]

\* What score_ethical_factors can return for a product, a profile and
\* weights.
ResultsFor(p, uv, w) ==
    {score_ethical_factors(p, uv, w, t) : t \in TieChoices(p, uv, w)}

\* C17: a missing user-value key is treated as importance 3. The result of
\* scoring with a profile that leaves a key out is a result of scoring with
\* that key stated as 3, the other arguments the same, and it is a result,
\* not a failure.
C17_MissingKeyIsNeutral ==
    Scored
        => /\ score_result.scoring_methodology = "weighted_multi_factor"
           /\ \A k \in AllValueKeys \ DOMAIN user_values :
                 score_result
                    \in ResultsFor(product_data,
                                   WithKey(user_values, k, 3), weights)

\* The call of the custom-weights test: the profile states only
\* environmental_importance, the labour and transparency keys are left out.
C17_Witness ==
    /\ Scored
    /\ product_data = CustomWeightsProduct
    /\ user_values = [k \in {"environmental_importance"} |-> 3]
    /\ weights = GivenWeights(TestWeights)
    /\ score_result.user_alignment = "moderate"
    /\ score_result.component_scores["labor"] = 70

\* The weights the claim states (in hundredths): the caller's as given, or
\* 0.25, 0.25, 0.20, 0.15, 0.15.
StatedWeights ==
    IF weights.is_none
    THEN [f \in Factors |->
            CASE f = "environmental" -> 25
              [] f = "labor" -> 25
              [] f = "supply_chain" -> 20
              [] f = "transparency" -> 15
              [] f = "certifications" -> 15]
    ELSE weights.map

\* The overall score before the multiplier as the claim states it, from the
\* returned component scores (in thousandths).
StatedOverall ==
    score_result.component_scores["environmental"]
            * StatedWeights["environmental"]
      + score_result.component_scores["labor"] * StatedWeights["labor"]
      + score_result.component_scores["supply_chain"]
            * StatedWeights["supply_chain"]
      + score_result.component_scores["transparency"]
            * StatedWeights["transparency"]
      + score_result.component_scores["certifications"]
            * StatedWeights["certifications"]

\* C18: caller-supplied weights are used as given. The overall score
\* returned is the sum over the five factors of component score times the
\* caller's weight (neither renormalised nor checked to sum to 1), times
\* the user multiplier, capped at 10.0 and rounded; with no weights given
\* the defaults 0.25, 0.25, 0.20, 0.15, 0.15 are used, and they sum to 1.0.
C18_WeightsAsGiven ==
    /\ SumOver(DefaultWeights, Factors) = 100
    /\ Scored
         => score_result.overall_score
               \in {Round1(Min(StatedOverall * StatedMultiplier, 10000000), t) :
                       t \in BOOLEAN}

\* Weights of 0.4 each (they sum to 2.0) on the product with nothing on it
\* and a profile that states nothing: 4 * 5.0 * 0.4 = 8.0, not the 4.0 of
\* weights scaled to sum to 1.
C18_Witness ==
    /\ Scored
    /\ product_data = NoProduct
    /\ user_values = NoValues
    /\ weights = GivenWeights(HeavyWeights)
    /\ score_result.overall_score = 80

\* ---------------------------------------- claims on the values assessment
\* The answers that are integers in the closed interval [1, 5], with the
\* integer each one is.
AcceptedAnswers == [r \in {"1", "4", " 5"} |-> IF r = "1" THEN 1
                                                ELSE IF r = "4" THEN 4 ELSE 5]

\* A captured profile: exactly the five keys, each with a value in 1..5.
IsProfile(values) ==
    /\ DOMAIN values = AllValueKeys
    /\ \A k \in DOMAIN values : values[k] \in 1..5

\* C19: the values assessment accepts only integers in [1, 5]. An answer
\* that is out of range or not a number is rejected: nothing is stored,
\* clamped or not, and the same question is asked again; an accepted answer
\* is stored as it is under the question's key; and whenever the assessment
\* completes, the captured profile has exactly the five keys, each with a
\* value in 1..5.
C19_OnlyOneToFive ==
    [][/\ (quiz.pc = "asking" /\ quiz' # quiz)
            => IF quiz'.response \in DOMAIN AcceptedAnswers
               THEN /\ quiz'.values
                          = WithKey(quiz.values, QuestionKeys[quiz.index],
                                    AcceptedAnswers[quiz'.response])
                    /\ quiz'.index = quiz.index + 1
               ELSE /\ quiz'.values = quiz.values
                    /\ quiz'.index = quiz.index
                    /\ quiz'.pc = "asking"
       /\ quiz'.pc = "done" => IsProfile(quiz'.values)]_vars

\* The third question answered "6" after two answers were stored: the
\* answer is rejected and the third question is still the one being asked.
C19_Witness ==
    /\ quiz.pc = "asking"
    /\ quiz.entry = "agent"
    /\ quiz.response = "6"
    /\ quiz.last = "out of range"
    /\ quiz.index = 3
    /\ DOMAIN quiz.values
          = {"environmental_importance", "labor_practices_importance"}

\* ------------------------------------------- claims on the consent gate
\* What validate_token answered at the call's gate step: the token the
\* call presented, the scope of its operation, the token's revocation
\* status as the call saw it.
AnswerAtGate(f) ==
    validate_token(f.token_str, RegistryScope(f.op),
                   IF f.seen_revoked THEN {f.token_str} ELSE {})

\* C20: when token validation reports invalid, the operation fails with
\* ConsentDenied carrying the collaborator's reason verbatim: the reason
\* the caller gets is exactly the string validate_token returned.
C20_ReasonVerbatim ==
    \A c \in Callers :
        LET f == calls[c]
        IN  (PastGate(f) /\ ~AnswerAtGate(f).valid)
                => /\ f.pc = "Denied"
                   /\ ConsentDenied(f.result)
                   /\ f.result.error[3] = AnswerAtGate(f).reason

\* Two calls denied on the same token for different reasons, each with the
\* reason validate_token gave it: the scope, then the revocation.
C20_Witness ==
    \E c, d \in Callers :
        /\ calls[c].pc = "Denied"
        /\ calls[d].pc = "Denied"
        /\ calls[c].token_str = calls[d].token_str
        /\ calls[c].token_str.signed
        /\ ConsentDenied(calls[c].result)
        /\ ConsentDenied(calls[d].result)
        /\ calls[c].result.error[3] = "Scope mismatch"
        /\ calls[d].result.error[3] = REVOKED_REASON

\* C21: the gate checks in order and stops at the first failure. Token
\* validation comes before the subject comparison: a call whose token is
\* invalid and was issued to a different subject fails with ConsentDenied,
\* never with SubjectMismatch, and a call fails with SubjectMismatch only
\* on a token that validated.
C21_ValidationFirst ==
    \A c \in Callers :
        LET f == calls[c]
        IN  PastGate(f)
                => /\ (~AnswerAtGate(f).valid
                          /\ f.token_str.user_id # f.user_id)
                        => /\ f.pc = "Denied"
                           /\ ConsentDenied(f.result)
                           /\ ~SubjectMismatch(f.result)
                   /\ SubjectMismatch(f.result) => AnswerAtGate(f).valid

\* A call for u2 on a token issued to u1 and revoked, or for another
\* scope: denied for consent, not for the subject.
C21_Witness ==
    \E c \in Callers :
        /\ calls[c].pc = "Denied"
        /\ calls[c].token_str.signed
        /\ calls[c].token_str.user_id = "u1"
        /\ calls[c].user_id = "u2"
        /\ calls[c].op # "generate_report"
        /\ ~AnswerAtGate(calls[c]).valid
        /\ ConsentDenied(calls[c].result)

\* C22: no operation of the agent mutates shared state. A step of any of
\* the five operations, in a call that succeeds or is denied, leaves the
\* revocation store and the agent's scope table as they were; the scope
\* table never changes, and the revocation store changes only in a
\* revoke_token of the token collaborator.
C22_NoSharedMutation ==
    [][/\ calls' # calls
            => /\ revoked' = revoked
               /\ required_scopes' = required_scopes
       /\ required_scopes' = required_scopes
       /\ revoked' # revoked
            => /\ nrevokes' = nrevokes + 1
               /\ \E t \in issued : revoked' = revoked \cup {t}
               /\ calls' = calls]_vars

\* One call returned with success and one denied, the revocation store
\* holding a token the collaborator revoked, the scope table as constructed.
C22_Witness ==
    \E c, d \in Callers :
        /\ calls[c].pc = "Returned"
        /\ calls[c].result.status = "success"
        /\ calls[d].pc = "Denied"
        /\ revoked # {}
        /\ nrevokes > 0
        /\ required_scopes = InitRequiredScopes

\* The step a call in flight takes next on its way to its outcome can be
\* taken.
CanGoOn(d) ==
    /\ calls[d].pc = "Requested" => ENABLED Gate(d)
    /\ calls[d].pc = "Authorized" => ENABLED Execute(d)
    /\ calls[d].pc = "Executed" => ENABLED (Seal(d) \/ Return(d))
    /\ calls[d].pc = "Sealed" => ENABLED Return(d)
    /\ calls[d].pc = "idle" /\ issued # {}
         => ENABLED (\E op \in Operations, u \in Users, t \in issued :
                        Request(d, op, u, t))

\* C23: a sealing failure is propagated unmodified and ends only the
\* operation in which it occurred. The call in which encrypt_data raised
\* hands its caller what encrypt_data raised and no result, sealed or
\* clear (a sealing operation returns success only from a sealing that
\* was done); it is not run again; the step changes no other call and no
\* shared state, and every other call, in flight or still to come, can
\* take its next step as before.
C23_SealFailureIsLocal ==
    [][\A c \in Callers :
          LET f == calls[c]
              g == calls'[c]
          IN  /\ (g.pc = "Failed" /\ f.pc # "Failed")
                    => /\ f.pc = "Executed"
                       /\ Seals(f.op)
                       /\ g.result.status = "error"
                       /\ g.result.error = ENCRYPT_FAILURE
                       /\ ~g.result.payload
                       /\ ~g.result.encrypted_data
                       /\ \A d \in Callers \ {c} : calls'[d] = calls[d]
                       /\ UNCHANGED <<issued, revoked, required_scopes>>
              /\ (g.pc = "Returned" /\ f.pc # "Returned" /\ Seals(g.op))
                    => /\ f.pc = "Sealed"
                       /\ g.result.encrypted_data
              /\ f.pc = "Failed"
                    => /\ g = f \/ g = IdleFrame
                       /\ \A d \in Callers \ {c} : CanGoOn(d)]_vars

\* One call of analyze_purchase_history failed in sealing while another
\* call of it on the same token returned its result with the sealed
\* payload.
C23_Witness ==
    \E c, d \in Callers :
        /\ calls[c].pc = "Failed"
        /\ calls[c].op = "analyze_purchase_history"
        /\ calls[c].result.error = ENCRYPT_FAILURE
        /\ calls[d].pc = "Returned"
        /\ calls[d].op = "analyze_purchase_history"
        /\ calls[d].token_str = calls[c].token_str
        /\ calls[d].result.status = "success"
        /\ calls[d].result.encrypted_data

\* The factors a list of explanation statements names.
Named(statements) == {statements[i] : i \in 1..Len(statements)}

====
